---------------------------- MODULE Spec2Model ----------------------------
(***************************************************************************)
(* Model of the BOUT-spack package recipes:                                *)
(*   "boutpp"    src/packages/boutpp/package.py             (class Boutpp) *)
(*   "hermes-3"  src/packages/hermes-3/package.py           (class Hermes3)*)
(*   "hermes_3"  src/spack_repo/bout/packages/hermes_3/package.py          *)
(*                                                          (class Hermes3)*)
(*                                                                         *)
(* A recipe is a table of variant(), depends_on() and cmake_args()         *)
(* declarations.  The directives themselves are calls into the package     *)
(* manager; each is modelled by what the call does with the arguments the  *)
(* recipe passes:                                                          *)
(*   variant(...)           a requested value is checked against values=,  *)
(*                          then handed to validator= (which accepts by    *)
(*                          returning and rejects by raising); a variant   *)
(*                          that is not requested takes default=; the      *)
(*                          value of a multi=True variant is the sorted    *)
(*                          tuple of the selected values.                  *)
(*   depends_on(s, when=c)  the dependency applies iff c holds of the      *)
(*                          resolved spec; no when= means always.          *)
(*   define(f, v)           a bool becomes ON/OFF, a list is joined with   *)
(*                          ";", anything else is its string.              *)
(*   define_from_variant(f, v)  define(f, value of variant v), the value   *)
(*                          of a multi-valued variant being its sorted     *)
(*                          list; KeyError when v is not a variant.        *)
(*                                                                         *)
(* Values are strings: a boolean variant holds "True" or "False".  A       *)
(* requested value is the set of strings given for the variant; a resolved *)
(* value is the tuple of its values in sorted order.                       *)
(***************************************************************************)
EXTENDS Naturals, Sequences, FiniteSets, TLC

VARIABLES registry, vantage_dep_declared, phase, pkg, ver, requested,
          config, deps, args, err

vars == <<registry, vantage_dep_declared, phase, pkg, ver, requested,
          config, deps, args, err>>

(* A request overrides at most this many variants. *)
MaxOverrides == 1

(* A value no variant declares. *)
Bogus == "bogus"

(* A variant name no package declares. *)
UnknownName == "nosuchvariant"

Packages == {"boutpp", "hermes-3", "hermes_3"}

---------------------------------------------------------------------------
(* Strings in the order Python sorts them (by code point). *)
SortOrder ==
    <<"0", "1", "2", "3", "4", "False", "MC", "MinMod", "True",
      "all", "bogus", "default", "none">>

Rank(s) == CHOOSE i \in 1..Len(SortOrder) : SortOrder[i] = s

Least(S) == CHOOSE s \in S : \A t \in S : Rank(s) <= Rank(t)

RECURSIVE Sorted(_)
Sorted(S) == IF S = {} THEN <<>>
             ELSE <<Least(S)>> \o Sorted(S \ {Least(S)})

RECURSIVE Join(_)
Join(seq) == IF Len(seq) = 0 THEN ""
             ELSE IF Len(seq) = 1 THEN seq[1]
             ELSE seq[1] \o ";" \o Join(Tail(seq))

Range(seq) == {seq[i] : i \in 1..Len(seq)}

---------------------------------------------------------------------------
(* version(...) declarations *)
tagged_versions == <<"5.0.0", "5.1.0", "5.1.1", "5.2.0">>

Versions(p) ==
    CASE p = "boutpp"   -> {"develop", "master"} \cup Range(tagged_versions)
      [] p = "hermes-3" -> {"working", "master", "1.3.1", "1.3.0", "1.2.1", "1.2.0"}
      [] p = "hermes_3" -> {"develop", "master", "1.3.1", "1.3.0", "1.2.1", "1.2.0"}

---------------------------------------------------------------------------
(* variant(...) declarations, in declaration order *)
BoolVariant(n, d) ==
    [name |-> n, values |-> {"True", "False"},
     default |-> {IF d THEN "True" ELSE "False"},
     multi |-> FALSE, validator |-> FALSE]

BoutppVariants ==
    << BoolVariant("adios2", FALSE),
       BoolVariant("backtrace", TRUE),
       BoolVariant("builddocs", FALSE),
       BoolVariant("buildexamples", FALSE),
       [name |-> "buildtests", values |-> {"all", "default", "none"},
        default |-> {"none"}, multi |-> TRUE, validator |-> FALSE],
       BoolVariant("caliper", FALSE),
       [name |-> "check", values |-> {"0", "1", "2", "3", "4"},
        default |-> {"2"}, multi |-> TRUE, validator |-> FALSE],
       BoolVariant("cuda", FALSE),
       BoolVariant("fftw", TRUE),
       BoolVariant("hypre", FALSE),
       BoolVariant("lapack", FALSE),
       BoolVariant("metric3d", FALSE),
       BoolVariant("netcdf", TRUE),
       BoolVariant("openmp", FALSE),
       BoolVariant("petsc", FALSE),
       BoolVariant("python", FALSE),
       BoolVariant("raja", FALSE),
       BoolVariant("sanitize_address", FALSE),
       BoolVariant("sanitize_leak", FALSE),
       BoolVariant("sanitize_memory", FALSE),
       BoolVariant("sanitize_thread", FALSE),
       BoolVariant("sanitize_undefined", FALSE),
       BoolVariant("scorep", FALSE),
       BoolVariant("slepc", FALSE),
       BoolVariant("shared", TRUE),
       BoolVariant("sigfpe", FALSE),
       BoolVariant("signal", TRUE),
       BoolVariant("sundials", FALSE),
       BoolVariant("track", TRUE),
       BoolVariant("umpire", FALSE) >>

(* Hermes3OldVariants with the declaration of petsc left out. *)
Hermes3OldVariants_without_petsc ==
    << [name |-> "limiter", values |-> {"MC", "MinMod"},
        default |-> {"MC"}, multi |-> FALSE, validator |-> FALSE],
       BoolVariant("bout-sundials", FALSE),
       BoolVariant("sundials", TRUE),
       BoolVariant("xhermes", TRUE) >>

Hermes3OldVariants ==
    << [name |-> "limiter", values |-> {"MC", "MinMod"},
        default |-> {"MC"}, multi |-> FALSE, validator |-> FALSE],
       BoolVariant("petsc", FALSE),
       BoolVariant("bout-sundials", FALSE),
       BoolVariant("sundials", TRUE),
       BoolVariant("xhermes", TRUE) >>

Hermes3Variants ==
    << [name |-> "limiter", values |-> {"MC", "MinMod"},
        default |-> {"MC"}, multi |-> FALSE, validator |-> FALSE],
       BoolVariant("xhermes", TRUE),
       [name |-> "vantagereactions", values |-> {"True", "False"},
        default |-> {"False"}, multi |-> FALSE, validator |-> TRUE] >>

VariantSpecs(p) ==
    CASE p = "boutpp"   -> BoutppVariants
      [] p = "hermes-3" -> Hermes3OldVariants
      [] p = "hermes_3" -> Hermes3Variants

VariantNames(p) == {VariantSpecs(p)[i].name : i \in 1..Len(VariantSpecs(p))}

VariantOf(p, n) ==
    LET vs == VariantSpecs(p)
    IN  vs[CHOOSE i \in 1..Len(vs) : vs[i].name = n]

---------------------------------------------------------------------------
(* The validator of variant "vantagereactions".  repo: the package names  *)
(* spack.repo.PATH knows.  The validator is called with the package name,  *)
(* the variant name and the candidate values; it reads only the variant    *)
(* name.  Result: "True", "False" or "raise" (InstallError).               *)
(* check_pkg_available with the test of exists() inverted. *)
check_pkg_available_inverted(variant_name, raise_on_notfound, repo) ==
    IF variant_name \in repo
    THEN IF raise_on_notfound THEN "raise" ELSE "False"
    ELSE "True"

(* check_pkg_available returning False where it should raise. *)
check_pkg_available_noraise(variant_name, raise_on_notfound, repo) ==
    IF ~(variant_name \in repo) THEN "False" ELSE "True"

check_pkg_available(variant_name, raise_on_notfound, repo) ==
    IF ~(variant_name \in repo)
    THEN IF raise_on_notfound THEN "raise" ELSE "False"
    ELSE "True"

vantagereactions_pkg_available(repo) ==
    check_pkg_available("vantagereactions", FALSE, repo) = "True"

---------------------------------------------------------------------------
(* Versions as their dot-separated components; "@c" holds of a version    *)
(* whose components start with those of c.                                 *)
VersionParts(v) ==
    CASE v = "5.0.0" -> <<"5", "0", "0">>
      [] v = "5.1.0" -> <<"5", "1", "0">>
      [] v = "5.1.1" -> <<"5", "1", "1">>
      [] v = "5.2.0" -> <<"5", "2", "0">>
      [] v = "1.3.1" -> <<"1", "3", "1">>
      [] v = "1.3.0" -> <<"1", "3", "0">>
      [] v = "1.2.1" -> <<"1", "2", "1">>
      [] v = "1.2.0" -> <<"1", "2", "0">>
      [] OTHER       -> <<v>>

VersionSatisfies(v, c) ==
    LET a == VersionParts(v)
        b == VersionParts(c)
    IN  /\ Len(b) <= Len(a)
        /\ \A i \in 1..Len(b) : a[i] = b[i]

---------------------------------------------------------------------------
(* depends_on(...) declarations, in declaration order.  when is           *)
(* <<"always">>, <<"variant", name>> (the spec "+name") or                 *)
(* <<"version", v>> (the spec "@v").                                       *)
Dep(s, n, w) == [spec |-> s, name |-> n, when |-> w]

simple_deps ==
    <<"adios2", "caliper", "cuda", "fftw", "hypre", "lapack", "python",
      "raja", "scorep", "slepc", "sundials", "umpire">>

simple_dep_spec(dep) ==
    IF dep = "sundials" THEN "sundials@2.6:6.7.0" ELSE dep

BoutppSimpleDeps ==
    [i \in 1..Len(simple_deps) |->
        Dep(simple_dep_spec(simple_deps[i]), simple_deps[i],
            <<"variant", simple_deps[i]>>)]

BoutppPetscDeps ==
    << Dep("petsc+mpi", "petsc", <<"variant", "petsc">>),
       Dep("petsc@3.7:3.23", "petsc", <<"always">>),
       Dep("petsc@:3.17", "petsc", <<"version", "5.0.0">>) >>

BoutppDeps ==
    << Dep("c", "c", <<"always">>),
       Dep("cxx", "cxx", <<"always">>),
       Dep("cmake@3.17:", "cmake", <<"always">>),
       Dep("mpi", "mpi", <<"always">>) >>
    \o BoutppSimpleDeps
    \o << Dep("netcdf-cxx4", "netcdf-cxx4", <<"variant", "netcdf">>),
          Dep("py-cython", "py-cython", <<"variant", "python">>),
          Dep("py-jinja2", "py-jinja2", <<"variant", "python">>),
          Dep("py-numpy", "py-numpy", <<"variant", "python">>) >>
    \o BoutppPetscDeps

Hermes3OldDeps ==
    << Dep("cmake@3.24:", "cmake", <<"always">>),
       Dep("fftw", "fftw", <<"always">>),
       Dep("mpi", "mpi", <<"always">>),
       Dep("netcdf-cxx4", "netcdf-cxx4", <<"always">>),
       Dep("py-cython", "py-cython", <<"always">>),
       Dep("py-jinja2", "py-jinja2", <<"always">>),
       Dep("py-netcdf4", "py-netcdf4", <<"always">>),
       Dep("petsc+hypre+mpi~debug~fortran", "petsc", <<"variant", "petsc">>),
       Dep("py-xhermes", "py-xhermes", <<"variant", "xhermes">>),
       Dep("sundials", "sundials", <<"variant", "sundials">>) >>

(* declared: what vantagereactions_pkg_available() returned when the      *)
(* class body ran.                                                         *)
Hermes3Deps(declared) ==
    << Dep("cmake@3.24:", "cmake", <<"always">>),
       Dep("fftw", "fftw", <<"always">>),
       Dep("mpi", "mpi", <<"always">>),
       Dep("boutpp", "boutpp", <<"always">>),
       Dep("netcdf-cxx4", "netcdf-cxx4", <<"always">>),
       Dep("py-boutdata@0.3.0:", "py-boutdata", <<"always">>),
       Dep("py-xhermes", "py-xhermes", <<"variant", "xhermes">>) >>
    \o (IF declared
        THEN << Dep("vantagereactions", "vantagereactions",
                    <<"variant", "vantagereactions">>) >>
        ELSE << >>)

DependencySpecs(p, declared) ==
    CASE p = "boutpp"   -> BoutppDeps
      [] p = "hermes-3" -> Hermes3OldDeps
      [] p = "hermes_3" -> Hermes3Deps(declared)

(* Whether a when= condition holds of the resolved spec (version v,       *)
(* variants c).  "+name" holds iff the spec has variant name with value    *)
(* True; a spec that has no such variant does not satisfy it.              *)
evaluate(when, c, v) ==
    CASE when[1] = "always"  -> TRUE
      [] when[1] = "variant" -> when[2] \in DOMAIN c /\ c[when[2]] = <<"True">>
      [] when[1] = "version" -> VersionSatisfies(v, when[2])

FilteredDeps(p, declared, c, v) ==
    LET ds == DependencySpecs(p, declared)
    IN  {ds[i] : i \in {j \in 1..Len(ds) : evaluate(ds[j].when, c, v)}}

---------------------------------------------------------------------------
(* The definitions cmake_args declares, in the order the source declares  *)
(* them.  kind "variant": define_from_variant(flag, var); "tests" and      *)
(* "alltests": the two definitions derived from buildtests; "fixed":       *)
(* define(flag, value).                                                    *)
FromVariant(f, v) == [flag |-> f, kind |-> "variant", var |-> v, value |-> FALSE]

Fixed(f, b) == [flag |-> f, kind |-> "fixed", var |-> "", value |-> b]

BoutppMappings ==
    << FromVariant("BOUT_USE_ADIOS2", "adios2"),
       FromVariant("BOUT_ENABLE_BACKTRACE", "backtrace"),
       FromVariant("BOUT_BUILD_DOCS", "builddocs"),
       FromVariant("BOUT_BUILD_EXAMPLES", "buildexamples"),
       FromVariant("BOUT_ENABLE_CALIPER", "caliper"),
       FromVariant("CHECK", "check"),
       FromVariant("BOUT_ENABLE_CUDA", "cuda"),
       FromVariant("BOUT_USE_HYPRE", "hypre"),
       FromVariant("BOUT_USE_LAPACK", "lapack"),
       FromVariant("BOUT_ENABLE_METRIC_3D", "metric3d"),
       FromVariant("BOUT_USE_NETCDF", "netcdf"),
       FromVariant("BOUT_ENABLE_OPENMP", "openmp"),
       FromVariant("BOUT_USE_PETSC", "petsc"),
       FromVariant("BOUT_ENABLE_PYTHON", "python"),
       FromVariant("BOUT_ENABLE_RAJA", "raja"),
       FromVariant("ENABLE_SANITIZER_ADDRESS", "sanitize_address"),
       FromVariant("ENABLE_SANITIZER_LEAK", "sanitize_leak"),
       FromVariant("ENABLE_SANITIZER_MEMORY", "sanitize_memory"),
       FromVariant("ENABLE_SANITIZER_THREAD", "sanitize_thread"),
       FromVariant("ENABLE_SANITIZER_UNDEFINED_BEH", "sanitize_undefined"),
       FromVariant("BOUT_USE_SCOREP", "scorep"),
       FromVariant("BOUT_USE_SLEPC", "slepc"),
       FromVariant("BUILD_SHARED_LIBS", "shared"),
       FromVariant("BOUT_ENABLE_SIGFPE", "sigfpe"),
       FromVariant("BOUT_ENABLE_SIGNAL", "signal"),
       FromVariant("BOUT_USE_SUNDIALS", "sundials"),
       FromVariant("BOUT_ENABLE_TRACK", "track"),
       FromVariant("BOUT_ENABLE_UMPIRE", "umpire"),
       [flag |-> "BOUT_TESTS", kind |-> "tests", var |-> "buildtests", value |-> FALSE],
       [flag |-> "BOUT_ENABLE_ALL_TESTS", kind |-> "alltests", var |-> "buildtests",
        value |-> FALSE],
       Fixed("BOUT_DOWNLOAD_ADIOS2", FALSE),
       Fixed("BOUT_DOWNLOAD_NETCDF_CXX4", FALSE),
       Fixed("BOUT_DOWNLOAD_SUNDIALS", FALSE),
       Fixed("BOUT_ENABLE_MPI", TRUE),
       Fixed("BOUT_GENERATE_FIELDOPS", FALSE),
       Fixed("BOUT_IGNORE_CONDA_ENV", TRUE),
       Fixed("BOUT_UPDATE_GIT_SUBMODULE", TRUE),
       Fixed("BOUT_USE_PVODE", TRUE),
       Fixed("INSTALL_GTEST", FALSE),
       Fixed("BOUT_USE_NLS", FALSE) >>

Hermes3OldMappings ==
    << FromVariant("BOUT_DOWNLOAD_SUNDIALS", "bout-sundials"),
       FromVariant("HERMES_SLOPE_LIMITER", "limiter"),
       FromVariant("BOUT_USE_PETSC", "petsc"),
       FromVariant("BOUT_USE_SUNDIALS", "sundials") >>

Hermes3Mappings ==
    << FromVariant("HERMES_SLOPE_LIMITER", "limiter"),
       FromVariant("HERMES_USE_VANTAGE", "vantagereactions"),
       Fixed("HERMES_BUILD_BOUT", FALSE) >>

Mappings(p) ==
    CASE p = "boutpp"   -> BoutppMappings
      [] p = "hermes-3" -> Hermes3OldMappings
      [] p = "hermes_3" -> Hermes3Mappings

---------------------------------------------------------------------------
(* A Python value handed to define: a bool, a list of strings or a string. *)
PyBool(b) == [type |-> "bool", b |-> b, l |-> <<>>, s |-> ""]

PyList(l) == [type |-> "list", b |-> FALSE, l |-> l, s |-> ""]

PyStr(s) == [type |-> "str", b |-> FALSE, l |-> <<>>, s |-> s]

(* define(flag, value): the pair (flag, value as the build system reads it) *)
define(flag, value) ==
    CASE value.type = "bool" -> <<flag, IF value.b THEN "ON" ELSE "OFF">>
      [] value.type = "list" -> <<flag, Join(value.l)>>
      [] value.type = "str"  -> <<flag, value.s>>

(* spec.variants[n].value: a bool for a boolean variant, the tuple of the  *)
(* selected values for a multi=True variant, the string otherwise.         *)
VariantValue(p, n, c) ==
    LET vs == VariantOf(p, n)
    IN  IF vs.multi THEN PyList(c[n])
        ELSE IF vs.values = {"True", "False"} THEN PyBool(c[n][1] = "True")
        ELSE PyStr(c[n][1])

(* define_from_variant hands a tuple or list to define as sorted(value). *)
define_from_variant(p, flag, var, c) ==
    LET value == VariantValue(p, var, c)
    IN  IF value.type = "list"
        THEN define(flag, PyList(Sorted(Range(value.l))))
        ELSE define(flag, value)

(* buildtests_first reading the last selected value: value[-1]. *)
buildtests_last(c) == c["buildtests"][Len(c["buildtests"])]

(* self.spec.variants["buildtests"].value[0] *)
buildtests_first(c) == c["buildtests"][1]

MappingArg(p, m, c) ==
    CASE m.kind = "variant"  -> define_from_variant(p, m.flag, m.var, c)
      [] m.kind = "tests"    -> define(m.flag, PyBool(buildtests_first(c) # "none"))
      [] m.kind = "alltests" -> define(m.flag, PyBool(buildtests_first(c) = "all"))
      [] m.kind = "fixed"    -> define(m.flag, PyBool(m.value))

IsFixed(m) == m.kind = "fixed"

IsVariantBacked(m) == m.kind # "fixed"

fixed_args(p) ==
    LET ms == SelectSeq(Mappings(p), IsFixed)
    IN  [i \in 1..Len(ms) |-> MappingArg(p, ms[i], << >>)]

variant_args(p, c) ==
    LET ms == SelectSeq(Mappings(p), IsVariantBacked)
    IN  [i \in 1..Len(ms) |-> MappingArg(p, ms[i], c)]

(* cmake_args extending args in the order the lists are built. *)
cmake_args_variant_first(p, c) == variant_args(p, c) \o fixed_args(p)

(* args = []; args.extend(fixed_args); args.extend(variant_args) *)
cmake_args(p, c) == fixed_args(p) \o variant_args(p, c)

(* define_from_variant and spec.variants[...] raise KeyError for a name    *)
(* that is not a variant of the package.                                   *)
cmake_args_raises(p, c) ==
    \E i \in 1..Len(Mappings(p)) :
        /\ IsVariantBacked(Mappings(p)[i])
        /\ Mappings(p)[i].var \notin DOMAIN c

---------------------------------------------------------------------------
(* Requests: the variants a request names, each with the set of values    *)
(* given for it.  A single-valued variant is given one value, a multi=True *)
(* variant a non-empty set; the value may be outside values=, and the name *)
(* may be one the package does not declare.                                *)
Candidates(p, n) ==
    IF n \notin VariantNames(p) THEN {{"True"}}
    ELSE LET vs == VariantOf(p, n)
         IN  IF vs.multi
             THEN (SUBSET (vs.values \cup {Bogus})) \ {{}}
             ELSE {{x} : x \in vs.values \cup {Bogus}}

RequestNames(p) == VariantNames(p) \cup {UnknownName}

Extend(r, n, x) == [m \in DOMAIN r \cup {n} |-> IF m = n THEN x ELSE r[m]]

RECURSIVE Requests(_, _)
Requests(p, k) ==
    IF k = 0 THEN {<< >>}
    ELSE LET less == Requests(p, k - 1)
         IN  less \cup
             UNION {{Extend(r, n, x) : x \in Candidates(p, n)} :
                    r \in less, n \in RequestNames(p)}

---------------------------------------------------------------------------
(* Validation of the requested variants.  A name the package does not     *)
(* declare is unknown; a value outside values= is invalid; a value inside  *)
(* values= is then handed to the validator, when the variant has one.      *)
IsUnknown(p, req, n) == n \notin VariantNames(p)

IsInvalid(p, req, n) ==
    /\ n \in VariantNames(p)
    /\ ~(req[n] \subseteq VariantOf(p, n).values)

IsRejected(p, req, n, repo) ==
    /\ n \in VariantNames(p)
    /\ req[n] \subseteq VariantOf(p, n).values
    /\ VariantOf(p, n).validator
    /\ check_pkg_available(n, TRUE, repo) = "raise"

(* The errors validation can end with: that of the first requested variant *)
(* that fails, in the order the request names them (any order).            *)
ValidationErrors(p, req, repo) ==
    {"UnknownVariant" : n \in {m \in DOMAIN req : IsUnknown(p, req, m)}}
    \cup {"InvalidValue" : n \in {m \in DOMAIN req : IsInvalid(p, req, m)}}
    \cup {"ValidatorRejected" : n \in {m \in DOMAIN req : IsRejected(p, req, m, repo)}}

(* resolve_value taking the first allowed value, not default=, for a      *)
(* variant the request does not name.                                      *)
resolve_value_first_allowed(p, n, req) ==
    Sorted(IF n \in DOMAIN req THEN req[n] ELSE {Least(VariantOf(p, n).values)})

(* The value of variant n in the resolved spec: the requested values, or   *)
(* default= when the request does not name it; a tuple in sorted order.    *)
resolve_value(p, n, req) ==
    Sorted(IF n \in DOMAIN req THEN req[n] ELSE VariantOf(p, n).default)

resolve(p, req) == [n \in VariantNames(p) |-> resolve_value(p, n, req)]

---------------------------------------------------------------------------
Init ==
    /\ registry \in SUBSET {"vantagereactions"}
    /\ vantage_dep_declared = vantagereactions_pkg_available(registry)
    /\ phase = "idle"
    /\ pkg = ""
    /\ ver = ""
    /\ requested = << >>
    /\ config = << >>
    /\ deps = {}
    /\ args = << >>
    /\ err = "none"

(* The package repository gains or loses a package after the class body   *)
(* of hermes_3 has run and before a request is resolved: the depends_on    *)
(* the class body made, or did not make, stays.  Nothing reads the         *)
(* repository once the request is resolved.                                *)
RegistryChange ==
    /\ phase = "idle"
    /\ registry' = {"vantagereactions"} \ registry
    /\ UNCHANGED <<vantage_dep_declared, phase, pkg, ver, requested,
                   config, deps, args, err>>

(* A request for package p at version v with variants req is resolved:     *)
(* validated, filled with defaults, and its dependencies selected.         *)
Concretize(p, v, req) ==
    /\ phase = "idle"
    /\ pkg' = p
    /\ ver' = v
    /\ requested' = req
    /\ args' = << >>
    /\ LET es == ValidationErrors(p, req, registry)
       IN  IF es # {}
           THEN /\ err' \in es
                /\ phase' = "failed"
                /\ config' = << >>
                /\ deps' = {}
           ELSE /\ err' = "none"
                /\ phase' = "concretized"
                /\ config' = resolve(p, req)
                /\ deps' = FilteredDeps(p, vantage_dep_declared, resolve(p, req), v)
    /\ UNCHANGED <<registry, vantage_dep_declared>>

(* Any package, any of its versions, any request within the bound. *)
Request ==
    /\ phase = "idle"
    /\ \E p \in Packages : \E req \in Requests(p, MaxOverrides) :
           \E v \in Versions(p) : Concretize(p, v, req)

(* cmake_args is called on the resolved spec. *)
CMakeArgs ==
    /\ phase = "concretized"
    /\ IF cmake_args_raises(pkg, config)
       THEN /\ err' = "UnresolvedReference"
            /\ phase' = "failed"
            /\ args' = << >>
       ELSE /\ err' = "none"
            /\ phase' = "built"
            /\ args' = cmake_args(pkg, config)
    /\ UNCHANGED <<registry, vantage_dep_declared, pkg, ver, requested, config, deps>>

Next ==
    \/ RegistryChange
    \/ Request
    \/ CMakeArgs

Spec == Init /\ [][Next]_vars

---------------------------------------------------------------------------
(* Reading the compiled argument list and the dependency set. *)
Positions(f) == {i \in 1..Len(args) : args[i][1] = f}

ArgValue(f) == args[CHOOSE i \in Positions(f) : TRUE][2]

Resolved == phase \in {"concretized", "built"}

DependsOn(n) == \E d \in deps : d.name = n

---------------------------------------------------------------------------
(* C1: in a package that declares the variant petsc, the selected          *)
(* dependencies contain a dependency on petsc if and only if the resolved  *)
(* value of petsc is true.                                                 *)
C1_PetscDepIffVariant ==
    (Resolved /\ "petsc" \in VariantNames(pkg))
        => (DependsOn("petsc") <=> config["petsc"] = <<"True">>)

(* C2, as the claim states it: for the variant that carries a validator,   *)
(* a request is accepted if and only if the validator passes, whatever the *)
(* requested value.                                                        *)
C2_ValidatorVerdictAuthoritative ==
    (phase # "idle" /\ pkg = "hermes_3" /\ DOMAIN requested = {"vantagereactions"})
        => (err = "none" <=> "vantagereactions" \in registry)

(* C2, amended: a requested value outside the declared domain fails, with  *)
(* InvalidValue when nothing else is requested, also for the variant that  *)
(* carries a validator; InvalidValue is given only for such a value; and a *)
(* request whose names are declared and whose values are in their domains  *)
(* is accepted if and only if every validator passes, and is otherwise     *)
(* rejected with the validator's error.                                    *)
C2_DomainThenValidator ==
    phase # "idle" =>
        LET declared == DOMAIN requested \cap VariantNames(pkg)
            outside  == {n \in declared :
                            ~(requested[n] \subseteq VariantOf(pkg, n).values)}
            unknown  == {n \in declared :
                            VariantOf(pkg, n).validator /\ n \notin registry}
        IN  /\ outside # {} => (phase = "failed" /\ err # "none")
            /\ (outside # {} /\ DOMAIN requested = outside /\ Cardinality(outside) = 1)
                   => err = "InvalidValue"
            /\ err = "InvalidValue" => outside # {}
            /\ (outside = {} /\ declared = DOMAIN requested)
                   => /\ err = "none" <=> unknown = {}
                      /\ err # "none" => err = "ValidatorRejected"

C2_Witness ==
    /\ phase = "failed"
    /\ pkg = "hermes_3"
    /\ DOMAIN requested = {"vantagereactions"}
    /\ requested["vantagereactions"] = {Bogus}
    /\ "vantagereactions" \in registry
    /\ err = "InvalidValue"

(* C4: the compiled list of boutpp holds exactly one CHECK definition and  *)
(* its value is a single level, the first selected value of check.         *)
C4_CheckIsFirstSelected ==
    (phase = "built" /\ pkg = "boutpp")
        => /\ Cardinality(Positions("CHECK")) = 1
           /\ ArgValue("CHECK") = config["check"][1]

(* C5: for every valid selection of buildtests, BOUT_TESTS is on iff the   *)
(* first selected value is not "none" and BOUT_ENABLE_ALL_TESTS is on iff  *)
(* it is "all"; all gives both on, the default both off, default gives the *)
(* first on and the second off, and the second on implies the first on.    *)
C5_BuildTests ==
    (phase = "built" /\ pkg = "boutpp")
        => LET first    == config["buildtests"][1]
               tests    == ArgValue("BOUT_TESTS")
               alltests == ArgValue("BOUT_ENABLE_ALL_TESTS")
               chosen   == IF "buildtests" \in DOMAIN requested
                           THEN requested["buildtests"] ELSE {"none"}
           IN  /\ Cardinality(Positions("BOUT_TESTS")) = 1
               /\ Cardinality(Positions("BOUT_ENABLE_ALL_TESTS")) = 1
               /\ first \in chosen
               /\ \A x \in chosen : Rank(first) <= Rank(x)
               /\ tests = (IF first # "none" THEN "ON" ELSE "OFF")
               /\ alltests = (IF first = "all" THEN "ON" ELSE "OFF")
               /\ chosen = {"all"} => (tests = "ON" /\ alltests = "ON")
               /\ chosen = {"none"} => (tests = "OFF" /\ alltests = "OFF")
               /\ chosen = {"default"} => (tests = "ON" /\ alltests = "OFF")
               /\ alltests = "ON" => tests = "ON"

C5_Witness ==
    /\ phase = "built"
    /\ pkg = "boutpp"
    /\ "buildtests" \in DOMAIN requested
    /\ requested["buildtests"] = {"default", "none"}
    /\ ArgValue("BOUT_TESTS") = "ON"
    /\ ArgValue("BOUT_ENABLE_ALL_TESTS") = "OFF"

(* C6: every declared default lies in the variant's allowed values (a      *)
(* fact of the declarations, read before any request); an                  *)
(* empty request resolves every declared variant to its default; and the   *)
(* list compiled from it carries the defaults (boutpp: BOUT_USE_NETCDF on, *)
(* BOUT_USE_PETSC off; both Hermes3: HERMES_SLOPE_LIMITER = MC).           *)
C6_Defaults ==
    /\ phase = "idle" =>
           \A p \in Packages : \A n \in VariantNames(p) :
               /\ VariantOf(p, n).default # {}
               /\ VariantOf(p, n).default \subseteq VariantOf(p, n).values
    /\ (phase # "idle" /\ DOMAIN requested = {})
           => /\ Resolved
              /\ DOMAIN config = VariantNames(pkg)
              /\ \A n \in VariantNames(pkg) :
                     /\ Range(config[n]) = VariantOf(pkg, n).default
                     /\ Len(config[n]) = Cardinality(VariantOf(pkg, n).default)
    /\ (phase = "built" /\ DOMAIN requested = {})
           => /\ pkg = "boutpp" => /\ ArgValue("BOUT_USE_NETCDF") = "ON"
                                   /\ ArgValue("BOUT_USE_PETSC") = "OFF"
                                   /\ ArgValue("CHECK") = "2"
              /\ pkg \in {"hermes-3", "hermes_3"}
                     => ArgValue("HERMES_SLOPE_LIMITER") = "MC"
              /\ pkg = "hermes_3" => ArgValue("HERMES_USE_VANTAGE") = "OFF"

C6_Witness ==
    /\ phase = "built"
    /\ pkg = "hermes_3"
    /\ DOMAIN requested = {}
    /\ registry = {}
    /\ ArgValue("HERMES_SLOPE_LIMITER") = "MC"

C8_AllOrNothing ==
    /\ phase = "failed"
           => /\ err \in {"UnknownVariant", "InvalidValue", "ValidatorRejected",
                          "UnresolvedReference"}
              /\ DOMAIN config = {}
              /\ deps = {}
              /\ args = << >>
    /\ Resolved
           => /\ err = "none"
              /\ DOMAIN config = VariantNames(pkg)
              /\ \A n \in VariantNames(pkg) : Len(config[n]) >= 1
              /\ deps \subseteq Range(DependencySpecs(pkg, vantage_dep_declared))
              /\ \A d \in Range(DependencySpecs(pkg, vantage_dep_declared)) :
                     d.when[1] = "always" => d \in deps
              /\ \A n \in DOMAIN requested :
                     (n \in VariantNames(pkg) /\ VariantOf(pkg, n).validator)
                         => n \in registry
    /\ phase = "concretized" => args = << >>
    /\ phase = "built" => Len(args) = Len(Mappings(pkg))

C8_Witness ==
    /\ phase = "failed"
    /\ pkg = "hermes_3"
    /\ "vantagereactions" \in DOMAIN requested
    /\ requested["vantagereactions"] = {"True"}
    /\ err = "ValidatorRejected"
    /\ args = << >>

(* C9, as the claim states it: a definition declared before another one in *)
(* cmake_args precedes it in the compiled list.                            *)
C9_DeclarationOrder ==
    phase = "built" =>
        \A i, j \in 1..Len(Mappings(pkg)) :
            i < j => \E a \in Positions(Mappings(pkg)[i].flag) :
                     \E b \in Positions(Mappings(pkg)[j].flag) : a < b

(* C9, amended: the compiled list holds exactly one entry per declared     *)
(* definition; the fixed definitions come first, in declaration order,     *)
(* then the variant-backed ones, in declaration order; so a definition's   *)
(* position depends on the package alone, not on the variant values.       *)
C9_FixedThenVariantOrder ==
    phase = "built" =>
        LET ms == Mappings(pkg)
            n  == Len(ms)
            nf == Cardinality({i \in 1..n : ms[i].kind = "fixed"})
            pos(i) == IF ms[i].kind = "fixed"
                      THEN Cardinality({k \in 1..i : ms[k].kind = "fixed"})
                      ELSE nf + Cardinality({k \in 1..i : ms[k].kind # "fixed"})
        IN  /\ Len(args) = n
            /\ \A i \in 1..n : Positions(ms[i].flag) = {pos(i)}

C9_Witness ==
    /\ phase = "built"
    /\ pkg = "boutpp"
    /\ "check" \in DOMAIN requested
    /\ args[1][1] = "BOUT_DOWNLOAD_ADIOS2"
    /\ args[11][1] = "BOUT_USE_ADIOS2"
    /\ args[Len(args)][1] = "BOUT_ENABLE_ALL_TESTS"

(* C10: in every compiled build of hermes_3, HERMES_USE_VANTAGE is on only *)
(* if vantagereactions is among the selected dependencies.                 *)
C10_VantageImpliesDependency ==
    (phase = "built" /\ pkg = "hermes_3" /\ ArgValue("HERMES_USE_VANTAGE") = "ON")
        => DependsOn("vantagereactions")

=============================================================================
